---- MODULE Spec2Model ----
(***************************************************************************)
(* shell-hist: the frequency trie built from a shell history               *)
(* (Node::chomp), its three top-k extractions (top_exclusive,              *)
(* top_inclusive, top_inclusive_filt) and the conversion of the ranked     *)
(* list to display lines (ct_node_to_list_line), as driven by main.        *)
(*                                                                         *)
(* A Rust String is modelled as a sequence of one-character strings, so    *)
(* that format!, trim_end and the BTreeMap key order are computed rather   *)
(* than assumed.  A Node is a record whose children field is a function    *)
(* from token to Node (the BTreeMap).  The BinaryHeap<CtNode> is the       *)
(* vector-backed binary heap of the Rust standard library.                 *)
(***************************************************************************)
EXTENDS Integers, Sequences, FiniteSets, Bags, TLC

VARIABLES pc, tree, ingested, mode, count, result, lines, fault

vars == <<pc, tree, ingested, mode, count, result, lines, fault>>

(***************************************************************************)
(* Bounds of the model.                                                    *)
(***************************************************************************)
\* tokens per history line, wide specification
MaxDepth == 2
\* history lines read, wide specification
MaxChomps == 3
\* largest value of the -n option
MaxLimit == 2
\* history lines read, deep specification (one token, long history)
MaxChompsDeep == 30

(***************************************************************************)
(* Strings.                                                                *)
(***************************************************************************)
\* Tokens come out of split_whitespace: non-empty, no whitespace inside.
Tokens == { <<"a">>, <<"b", "c">> }

DeepTokens == { <<"a">> }

\* All token sequences of at most d tokens over the token set T.
TokSeqs(T, d) == UNION { [1..n -> T] : n \in 0..d }

CharCode(c) ==
    CASE c = " " -> 32
      [] c = "a" -> 97
      [] c = "b" -> 98
      [] c = "c" -> 99

is_whitespace(c) == c = " "

\* Ord for String: lexicographic on bytes, a proper prefix is smaller.
RECURSIVE StrLess(_, _)
StrLess(s, t) ==
    IF t = <<>> THEN FALSE
    ELSE IF s = <<>> THEN TRUE
    ELSE IF CharCode(Head(s)) # CharCode(Head(t))
         THEN CharCode(Head(s)) < CharCode(Head(t))
         ELSE StrLess(Tail(s), Tail(t))

\* format!("{}{} ", prefix, cmd)
format_next(prefix, cmd) == prefix \o cmd \o <<" ">>

\* Mutant of trim_end: the trailing space of next_txt is kept.
trim_end_none(s) == s

\* str::trim_end
RECURSIVE trim_end(_)
trim_end(s) ==
    IF s # <<>> /\ is_whitespace(s[Len(s)])
    THEN trim_end(SubSeq(s, 1, Len(s) - 1))
    ELSE s

(***************************************************************************)
(* The trie.                                                               *)
(***************************************************************************)
EmptyMap == [k \in {} |-> 0]

\* Mutant of NodeNew: a fresh node already counts one line.
NodeNewOne == [children |-> EmptyMap, count_inclusive |-> 1, count_exact |-> 0]

\* Node::new
NodeNew == [children |-> EmptyMap, count_inclusive |-> 0, count_exact |-> 0]

\* Mutant of insert_if_absent: the contains_key test is dropped, an existing
\* child is replaced by a fresh node.
insert_overwrite(children, key) ==
    [k \in DOMAIN children \cup {key} |->
        IF k = key THEN NodeNew
        ELSE children[k]]

\* children.insert(toks[0], Node::new()) when the key is absent
insert_if_absent(children, key) ==
    IF key \in DOMAIN children THEN children ELSE children @@ (key :> NodeNew)

\* Mutant of chomp: count_exact is never incremented.
RECURSIVE chomp_no_exact(_, _)
chomp_no_exact(self, toks) ==
    LET inc == [self EXCEPT !.count_inclusive = @ + 1] IN
    IF toks = <<>>
    THEN inc
    ELSE LET ch == insert_if_absent(inc.children, Head(toks)) IN
         [inc EXCEPT !.children =
             [ch EXCEPT ![Head(toks)] = chomp_no_exact(ch[Head(toks)], Tail(toks))]]

\* Mutant of chomp: count_exact is incremented at every node of the path.
RECURSIVE chomp_exact_everywhere(_, _)
chomp_exact_everywhere(self, toks) ==
    LET inc == [self EXCEPT !.count_inclusive = @ + 1, !.count_exact = @ + 1] IN
    IF toks = <<>>
    THEN inc
    ELSE LET ch == insert_if_absent(inc.children, Head(toks)) IN
         [inc EXCEPT !.children =
             [ch EXCEPT ![Head(toks)] = chomp_exact_everywhere(ch[Head(toks)], Tail(toks))]]

\* Mutant of chomp: count_inclusive is incremented after the early return, so
\* the node a line ends at does not count it.
RECURSIVE chomp_late_inclusive(_, _)
chomp_late_inclusive(self, toks) ==
    IF toks = <<>>
    THEN [self EXCEPT !.count_exact = @ + 1]
    ELSE LET inc == [self EXCEPT !.count_inclusive = @ + 1]
             ch == insert_if_absent(inc.children, Head(toks))
         IN [inc EXCEPT !.children =
                [ch EXCEPT ![Head(toks)] = chomp_late_inclusive(ch[Head(toks)], Tail(toks))]]

\* Node::chomp
RECURSIVE chomp(_, _)
chomp(self, toks) ==
    LET inc == [self EXCEPT !.count_inclusive = @ + 1] IN
    IF toks = <<>>
    THEN [inc EXCEPT !.count_exact = @ + 1]
    ELSE LET ch == insert_if_absent(inc.children, Head(toks)) IN
         [inc EXCEPT !.children =
             [ch EXCEPT ![Head(toks)] = chomp(ch[Head(toks)], Tail(toks))]]

\* BTreeMap::iter: the keys in ascending order
RECURSIVE SortedKeys(_)
SortedKeys(keys) ==
    IF keys = {} THEN <<>>
    ELSE LET k == CHOOSE x \in keys : \A y \in keys \ {x} : StrLess(x, y)
         IN <<k>> \o SortedKeys(keys \ {k})

(***************************************************************************)
(* CtNode and the BinaryHeap<CtNode>.                                      *)
(***************************************************************************)
CtNode(c, txt) == [count |-> c, full_text |-> txt]

\* Mutant of CtNodeCmp: the comparison is not reversed (self.count.cmp(&other.count)).
CtNodeCmpNatural(a, b) ==
    IF a.count < b.count THEN -1 ELSE IF a.count = b.count THEN 0 ELSE 1

\* impl Ord for CtNode: other.count.cmp(&self.count); -1 Less, 0 Equal, 1 Greater
CtNodeCmp(a, b) ==
    IF b.count < a.count THEN -1 ELSE IF b.count = a.count THEN 0 ELSE 1

Swap(data, i, j) == [data EXCEPT ![i] = data[j], ![j] = data[i]]

\* BinaryHeap::sift_up(start, pos), positions counted from 1
RECURSIVE sift_up(_, _, _)
sift_up(data, start, pos) ==
    IF pos > start /\ CtNodeCmp(data[pos], data[pos \div 2]) > 0
    THEN sift_up(Swap(data, pos, pos \div 2), start, pos \div 2)
    ELSE data

\* BinaryHeap::sift_down_to_bottom(pos)
RECURSIVE sift_down_to_bottom(_, _, _)
sift_down_to_bottom(data, start, pos) ==
    IF 2 * pos <= Len(data)
    THEN LET left == 2 * pos
             right == left + 1
             child == IF right <= Len(data)
                         /\ ~(CtNodeCmp(data[left], data[right]) > 0)
                      THEN right ELSE left
         IN sift_down_to_bottom(Swap(data, pos, child), start, child)
    ELSE sift_up(data, start, pos)

\* BinaryHeap::push
push(data, item) == sift_up(Append(data, item), 1, Len(data) + 1)

\* BinaryHeap::pop, the heap that is left
pop(data) ==
    IF Len(data) <= 1 THEN <<>>
    ELSE LET item == data[Len(data)]
             rest == SubSeq(data, 1, Len(data) - 1)
         IN sift_down_to_bottom([rest EXCEPT ![1] = item], 1, 1)

\* .drain(..).for_each(|t| topn.push(t))
RECURSIVE push_all(_, _)
push_all(data, items) ==
    IF items = <<>> THEN data
    ELSE push_all(push(data, Head(items)), Tail(items))

\* Mutant of truncate: the loop stops one entry early.
RECURSIVE truncate_off_by_one(_, _)
truncate_off_by_one(data, ct) ==
    IF Len(data) > ct + 1 THEN truncate_off_by_one(pop(data), ct) ELSE data

\* while topn.len() > ct { topn.pop(); }
RECURSIVE truncate(_, _)
truncate(data, ct) ==
    IF Len(data) > ct THEN truncate(pop(data), ct) ELSE data

\* Vec::sort with Ord for CtNode: stable
RECURSIVE sort_insert(_, _)
sort_insert(sorted, item) ==
    IF sorted = <<>> THEN <<item>>
    ELSE IF CtNodeCmp(item, sorted[Len(sorted)]) < 0
         THEN Append(sort_insert(SubSeq(sorted, 1, Len(sorted) - 1), item),
                     sorted[Len(sorted)])
         ELSE Append(sorted, item)

RECURSIVE sort(_)
sort(x) ==
    IF x = <<>> THEN <<>>
    ELSE sort_insert(sort(SubSeq(x, 1, Len(x) - 1)), x[Len(x)])

\* Mutant of drain_sorted: x.sort() is left out, the heap's vector is returned.
drain_unsorted(data) == data

\* topn.drain().collect(); x.sort(); x
drain_sorted(data) == sort(data)

(***************************************************************************)
(* The three extractions.                                                  *)
(***************************************************************************)
\* Node::top_exclusive; excl_for_each is its closure over children.iter()
RECURSIVE top_exclusive(_, _, _), excl_for_each(_, _, _, _, _)
excl_for_each(self, keys, ct, prefix, topn) ==
    IF keys = <<>> THEN topn
    ELSE LET cmd == Head(keys)
             node == self.children[cmd]
             next_txt == format_next(prefix, cmd)
             merged == push_all(topn, top_exclusive(node, ct, next_txt))
             pushed == push(merged, CtNode(node.count_exact, trim_end(next_txt)))
         IN excl_for_each(self, Tail(keys), ct, prefix, pushed)

top_exclusive(self, ct, prefix) ==
    drain_sorted(truncate(
        excl_for_each(self, SortedKeys(DOMAIN self.children), ct, prefix, <<>>), ct))

\* Node::top_inclusive; incl_for_each is its closure over children.iter()
RECURSIVE top_inclusive(_, _, _), incl_for_each(_, _, _, _, _)
incl_for_each(self, keys, ct, prefix, topn) ==
    IF keys = <<>> THEN topn
    ELSE LET cmd == Head(keys)
             node == self.children[cmd]
             next_txt == format_next(prefix, cmd)
             merged == push_all(topn, top_inclusive(node, ct, next_txt))
             pushed == push(merged, CtNode(node.count_inclusive, trim_end(next_txt)))
         IN incl_for_each(self, Tail(keys), ct, prefix, pushed)

top_inclusive(self, ct, prefix) ==
    drain_sorted(truncate(
        incl_for_each(self, SortedKeys(DOMAIN self.children), ct, prefix, <<>>), ct))

\* The first operand of the && in top_inclusive_filt: when it is false the
\* division is not evaluated.
filt_divides(node) == node.count_exact # 0

\* Mutant of filt_qualifies: the quotient is compared with > 1.
filt_qualifies_strict(node) ==
    filt_divides(node) /\ node.count_inclusive # 0
    /\ ((node.count_exact * 10) \div node.count_inclusive) > 1

\* (node.count_exact != 0) && (((node.count_exact * 10) / node.count_inclusive) >= 1)
\* Evaluated only where the division does not panic (see filt_div_by_zero).
filt_qualifies(node) ==
    filt_divides(node) /\ node.count_inclusive # 0
    /\ ((node.count_exact * 10) \div node.count_inclusive) >= 1

\* Whether the traversal of top_inclusive_filt divides by zero somewhere below
\* self: usize division by zero panics.
RECURSIVE filt_div_by_zero(_)
filt_div_by_zero(self) ==
    \E cmd \in DOMAIN self.children :
        \/ filt_div_by_zero(self.children[cmd])
        \/ filt_divides(self.children[cmd])
           /\ self.children[cmd].count_inclusive = 0

\* Node::top_inclusive_filt; filt_for_each is its closure over children.iter()
RECURSIVE top_inclusive_filt(_, _, _), filt_for_each(_, _, _, _, _)
filt_for_each(self, keys, ct, prefix, topn) ==
    IF keys = <<>> THEN topn
    ELSE LET cmd == Head(keys)
             node == self.children[cmd]
             next_txt == format_next(prefix, cmd)
             merged == push_all(topn, top_inclusive_filt(node, ct, next_txt))
             pushed == IF filt_qualifies(node)
                       THEN push(merged, CtNode(node.count_inclusive, trim_end(next_txt)))
                       ELSE merged
         IN filt_for_each(self, Tail(keys), ct, prefix, pushed)

top_inclusive_filt(self, ct, prefix) ==
    drain_sorted(truncate(
        filt_for_each(self, SortedKeys(DOMAIN self.children), ct, prefix, <<>>), ct))

(***************************************************************************)
(* Display conversion.                                                     *)
(***************************************************************************)
\* Line { pct: (line.count as f64) / max, node: line }; the quotient is kept
\* as the pair of its operands.
Line(line, max) == [pct |-> [num |-> line.count, den |-> max], node |-> line]

\* ct_node_to_list_line, for a list whose first() is Some
ct_node_to_list_line(in_dat) ==
    LET max == in_dat[1].count IN
    [i \in 1..Len(in_dat) |-> Line(in_dat[i], max)]

(***************************************************************************)
(* The program: main.                                                      *)
(***************************************************************************)
Modes == {"Fuzzy", "Exact", "Heat"}

\* the match on DisplayMode in main
func(m, t, ct, prefix) ==
    CASE m = "Fuzzy" -> top_inclusive_filt(t, ct, prefix)
      [] m = "Exact" -> top_exclusive(t, ct, prefix)
      [] m = "Heat"  -> top_inclusive(t, ct, prefix)

\* Options::from_args and Node::new in parse_file
InitWith(ms) ==
    /\ pc = "parse"
    /\ tree = NodeNew
    /\ ingested = EmptyBag
    /\ mode \in ms
    /\ count \in 0..MaxLimit
    /\ result = <<>>
    /\ lines = <<>>
    /\ fault = "none"

Init == InitWith(Modes)

InitDeep == InitWith({"Fuzzy"})

\* One iteration of the try_for_each of parse_file: tree.chomp(&toks)
Chomp(toks, max) ==
    /\ pc = "parse"
    /\ BagCardinality(ingested) < max
    /\ tree' = chomp(tree, toks)
    /\ ingested' = ingested (+) SetToBag({toks})
    /\ UNCHANGED <<pc, mode, count, result, lines, fault>>

\* End of the history: func(&t, opt.count, "")
Extract ==
    /\ pc = "parse"
    /\ IF mode = "Fuzzy" /\ filt_div_by_zero(tree)
       THEN /\ pc' = "panicked"
            /\ fault' = "div_by_zero"
            /\ UNCHANGED result
       ELSE /\ pc' = "extracted"
            /\ result' = func(mode, tree, count, <<>>)
            /\ UNCHANGED fault
    /\ UNCHANGED <<tree, ingested, mode, count, lines>>

\* ct_node_to_list_line(..): in_dat.first().unwrap() panics on an empty list
Display ==
    /\ pc = "extracted"
    /\ IF result = <<>>
       THEN /\ pc' = "panicked"
            /\ fault' = "unwrap_none"
            /\ UNCHANGED lines
       ELSE /\ pc' = "shown"
            /\ lines' = ct_node_to_list_line(result)
            /\ UNCHANGED fault
    /\ UNCHANGED <<tree, ingested, mode, count, result>>

Next ==
    \/ \E toks \in TokSeqs(Tokens, MaxDepth) : Chomp(toks, MaxChomps)
    \/ Extract
    \/ Display

Spec == Init /\ [][Next]_vars

\* A long history over one token, read in the default (Fuzzy) mode.
NextDeep ==
    \/ \E toks \in TokSeqs(DeepTokens, MaxDepth) : Chomp(toks, MaxChompsDeep)
    \/ Extract
    \/ Display

SpecDeep == InitDeep /\ [][NextDeep]_vars

(***************************************************************************)
(* Vocabulary of the properties.                                           *)
(***************************************************************************)
\* The nodes of a trie, each named by the tokens on the path from the root.
RECURSIVE Paths(_)
Paths(node) ==
    {<<>>} \cup UNION { { <<k>> \o p : p \in Paths(node.children[k]) }
                        : k \in DOMAIN node.children }

RECURSIVE NodeAt(_, _)
NodeAt(node, path) ==
    IF path = <<>> THEN node ELSE NodeAt(node.children[Head(path)], Tail(path))

NonRoot(node) == Paths(node) \ {<<>>}

RECURSIVE SumOver(_, _)
SumOver(f, S) ==
    IF S = {} THEN 0
    ELSE LET x == CHOOSE y \in S : TRUE IN f[x] + SumOver(f, S \ {x})

ChildrenInclusive(node) ==
    SumOver([k \in DOMAIN node.children |-> node.children[k].count_inclusive],
            DOMAIN node.children)

IsPrefix(p, s) == Len(p) <= Len(s) /\ SubSeq(s, 1, Len(p)) = p

\* The tokens of a path joined by single spaces.
RECURSIVE Join(_)
Join(path) ==
    IF path = <<>> THEN <<>>
    ELSE IF Len(path) = 1 THEN path[1]
    ELSE path[1] \o <<" ">> \o Join(Tail(path))

\* The extraction has returned (it did not panic on the way).
Extracted == pc # "parse" /\ fault # "div_by_zero"

PolicyCount(m, node) ==
    IF m = "Exact" THEN node.count_exact ELSE node.count_inclusive

\* The Fuzzy test as the specification words it.
FuzzyTest(node) ==
    /\ node.count_exact # 0
    /\ IF node.count_inclusive = 0 THEN FALSE
       ELSE (node.count_exact * 10) \div node.count_inclusive >= 1

Candidates(m, t) ==
    IF m = "Fuzzy" THEN { p \in NonRoot(t) : FuzzyTest(NodeAt(t, p)) }
    ELSE NonRoot(t)

\* The k largest policy counts among the nodes S of t, largest first.
RECURSIVE TopK(_, _, _, _)
TopK(m, t, S, k) ==
    IF k = 0 \/ S = {} THEN <<>>
    ELSE LET best == CHOOSE p \in S : \A q \in S :
                         PolicyCount(m, NodeAt(t, q)) <= PolicyCount(m, NodeAt(t, p))
         IN <<PolicyCount(m, NodeAt(t, best))>> \o TopK(m, t, S \ {best}, k - 1)

CountsOf(list) == [i \in 1..Len(list) |-> list[i].count]

TextsOf(list) == { list[i].full_text : i \in 1..Len(list) }

AllLines == TokSeqs(Tokens \cup DeepTokens, MaxDepth + 1)

(***************************************************************************)
(* C1: every node of the trie, the root included, has count_inclusive >=   *)
(* count_exact, and its count_inclusive is its count_exact plus the sum    *)
(* of the count_inclusive of its children.                                 *)
(***************************************************************************)
C1_CountsAddUp ==
    \A p \in Paths(tree) :
        LET n == NodeAt(tree, p) IN
        /\ n.count_inclusive >= n.count_exact
        /\ n.count_inclusive = n.count_exact + ChildrenInclusive(n)

\* a node where a line ended and that two other lines passed through
C1_Witness ==
    \E p \in NonRoot(tree) :
        /\ NodeAt(tree, p).count_exact >= 1
        /\ Cardinality(DOMAIN NodeAt(tree, p).children) >= 2

(***************************************************************************)
(* C2: the root's count_inclusive is the number of chomp calls made,       *)
(* calls with an empty token sequence included.                            *)
(***************************************************************************)
C2_RootCountsCalls == tree.count_inclusive = BagCardinality(ingested)

C2_Witness ==
    /\ BagCardinality(ingested) >= 3
    /\ BagIn(<<>>, ingested)
    /\ \E s \in BagToSet(ingested) : Len(s) = 2

(***************************************************************************)
(* C3: top_exclusive and top_inclusive on the root with an empty prefix    *)
(* return the `count` largest policy counts over all non-root nodes,       *)
(* largest first, whatever was cut off in the subtrees.                    *)
(***************************************************************************)
C3_TrueTopK ==
    (Extracted /\ mode \in {"Exact", "Heat"}) =>
        CountsOf(result) = TopK(mode, tree, NonRoot(tree), count)

\* the best entry lies in a subtree that was itself cut down to one entry
C3_Witness ==
    /\ pc = "extracted" /\ mode = "Exact" /\ count = 1
    /\ \E k \in DOMAIN tree.children :
          /\ Cardinality(DOMAIN tree.children[k].children) >= 2
          /\ \E j \in DOMAIN tree.children[k].children :
                result = <<CtNode(2, Join(<<k, j>>))>>

(***************************************************************************)
(* C4: the list returned by any of the three policies is no longer than    *)
(* `count` and no longer than the number of qualifying nodes; count = 0    *)
(* gives the empty list.                                                   *)
(***************************************************************************)
C4_LengthBound ==
    Extracted =>
        /\ Len(result) <= count
        /\ Len(result) <= Cardinality(Candidates(mode, tree))
        /\ (count = 0 => result = <<>>)

C4_Witness ==
    /\ pc = "extracted" /\ mode = "Fuzzy" /\ count >= 1
    /\ Cardinality(Candidates(mode, tree)) > count
    /\ Len(result) = count

(***************************************************************************)
(* C5: display conversion of an empty ranked list gives an empty list of   *)
(* lines and does not fault.                                               *)
(***************************************************************************)
C5_EmptyListIsShown ==
    (pc \in {"shown", "panicked"} /\ result = <<>> /\ fault # "div_by_zero") =>
        (pc = "shown" /\ lines = <<>> /\ fault = "none")

(***************************************************************************)
(* C6: under top_inclusive_filt a non-root node is a candidate exactly     *)
(* when count_exact # 0 and (count_exact * 10) div count_inclusive >= 1;   *)
(* its entry carries count_inclusive; a node failing the test is not       *)
(* emitted, and the qualifying nodes, its descendants among them, compete  *)
(* for the `count` places.                                                 *)
(***************************************************************************)
C6_FuzzyCandidates ==
    (Extracted /\ mode = "Fuzzy") =>
        LET cand == Candidates("Fuzzy", tree) IN
        /\ \A i \in 1..Len(result) :
              \E p \in cand :
                  result[i] = CtNode(NodeAt(tree, p).count_inclusive, Join(p))
        /\ Cardinality(TextsOf(result)) = Len(result)
        /\ CountsOf(result) = TopK("Fuzzy", tree, cand, count)

\* "a" ended 2 lines of 30 and is left out; its child, below it, is emitted
C6_Witness ==
    /\ pc = "extracted" /\ mode = "Fuzzy" /\ count >= 1
    /\ \E k \in DOMAIN tree.children :
          /\ tree.children[k].count_exact = 2
          /\ tree.children[k].count_inclusive = 30
          /\ Join(<<k>>) \notin TextsOf(result)
          /\ \E j \in DOMAIN tree.children[k].children :
                Join(<<k, j>>) \in TextsOf(result)

(***************************************************************************)
(* C7: top_inclusive_filt never divides by a count_inclusive of 0: every   *)
(* node with count_exact # 0 has count_inclusive > 0, and every non-root   *)
(* node has count_inclusive >= 1.                                          *)
(***************************************************************************)
C7_NoDivisionByZero ==
    /\ fault # "div_by_zero"
    /\ \A p \in Paths(tree) :
          NodeAt(tree, p).count_exact # 0 => NodeAt(tree, p).count_inclusive > 0
    /\ \A p \in NonRoot(tree) : NodeAt(tree, p).count_inclusive >= 1

\* the division was evaluated for a node, and for another it was skipped
C7_Witness ==
    /\ pc = "extracted" /\ mode = "Fuzzy"
    /\ \E p \in NonRoot(tree) : filt_divides(NodeAt(tree, p))
    /\ \E p \in NonRoot(tree) : ~filt_divides(NodeAt(tree, p))

(***************************************************************************)
(* C8: the trie depends only on the multiset of token sequences fed to     *)
(* chomp, not on their order: each node exists exactly when a sequence     *)
(* passes through it, its count_exact is the number of sequences equal to  *)
(* its path and its count_inclusive the number that its path is a prefix   *)
(* of.                                                                     *)
(***************************************************************************)
Through(bag, p) == { s \in BagToSet(bag) : IsPrefix(p, s) }

RECURSIVE TrieOf(_, _)
TrieOf(bag, p) ==
    LET keys == { s[Len(p) + 1] : s \in { x \in Through(bag, p) : Len(x) > Len(p) } }
    IN [children |-> [k \in keys |-> TrieOf(bag, Append(p, k))],
        count_inclusive |-> SumOver([s \in Through(bag, p) |-> CopiesIn(s, bag)],
                                    Through(bag, p)),
        count_exact |-> CopiesIn(p, bag)]

C8_OrderIrrelevant == tree = TrieOf(ingested, <<>>)

\* three different lines, two of them sharing their first token
C8_Witness ==
    /\ Cardinality(BagToSet(ingested)) >= 3
    /\ \E s, t \in BagToSet(ingested) :
          s # t /\ IsPrefix(s, t) /\ s # <<>>

(***************************************************************************)
(* C9: every entry returned for the root and the empty prefix stands for   *)
(* one non-root node: its full_text is the tokens of the node's path       *)
(* joined by single spaces, not empty and without trailing whitespace,     *)
(* its count is the node's policy count, and no node is emitted twice.     *)
(***************************************************************************)
C9_EntriesAreNodes ==
    Extracted =>
        /\ \A i \in 1..Len(result) :
              /\ result[i].full_text # <<>>
              /\ ~is_whitespace(result[i].full_text[Len(result[i].full_text)])
              /\ \E p \in NonRoot(tree) :
                    /\ result[i].full_text = Join(p)
                    /\ result[i].count = PolicyCount(mode, NodeAt(tree, p))
        /\ \A i, j \in 1..Len(result) :
              i # j => result[i].full_text # result[j].full_text

\* a node of depth 1 and a node of depth 2 are both returned
C9_Witness ==
    /\ pc = "extracted"
    /\ \E p, q \in NonRoot(tree) :
          /\ Len(p) = 1 /\ Len(q) = 2
          /\ {Join(p), Join(q)} \subseteq TextsOf(result)

(***************************************************************************)
(* C10: one chomp(toks) adds 1 to count_inclusive at the root and at each  *)
(* node on the path toks, adds 1 to count_exact at the last node of the    *)
(* path only, creates the missing nodes of the path from zero counts, and  *)
(* leaves every other node as it was.                                      *)
(***************************************************************************)
OldInclusive(t, p) == IF p \in Paths(t) THEN NodeAt(t, p).count_inclusive ELSE 0

OldExact(t, p) == IF p \in Paths(t) THEN NodeAt(t, p).count_exact ELSE 0

ChompEffect(t, t2, toks) ==
    /\ Paths(t2) = Paths(t) \cup { SubSeq(toks, 1, n) : n \in 0..Len(toks) }
    /\ \A p \in Paths(t2) :
          /\ NodeAt(t2, p).count_inclusive =
                OldInclusive(t, p) + (IF IsPrefix(p, toks) THEN 1 ELSE 0)
          /\ NodeAt(t2, p).count_exact =
                OldExact(t, p) + (IF p = toks THEN 1 ELSE 0)

C10_ChompFrame ==
    [][\A toks \in AllLines :
          (ingested' = ingested (+) SetToBag({toks})) => ChompEffect(tree, tree', toks)]_vars

\* a trie with a branch beside the path last fed, and an empty line counted
C10_Witness ==
    /\ pc = "parse"
    /\ tree.count_exact >= 1
    /\ Cardinality(DOMAIN tree.children) >= 2
    /\ \E p \in NonRoot(tree) : Len(p) = 2

(***************************************************************************)
(* C11: with count >= 1 each of the three policies returns a non-empty     *)
(* list exactly when the root has a child, and the first entry then has    *)
(* count >= 1, so the divisor max of ct_node_to_list_line is never 0,      *)
(* although top_exclusive may emit entries whose count is 0.               *)
(***************************************************************************)
C11_BestCountPositive ==
    /\ (Extracted /\ count >= 1) =>
          /\ (result # <<>>) <=> (DOMAIN tree.children # {})
          /\ result # <<>> => result[1].count >= 1
    /\ pc = "shown" => \A i \in 1..Len(lines) : lines[i].pct.den >= 1

\* Exact mode returned an entry of count 0 behind a positive best entry,
\* and the lines were computed
C11_Witness ==
    /\ pc = "shown" /\ mode = "Exact"
    /\ \E i \in 1..Len(result) : result[i].count = 0
    /\ lines[1].pct.den >= 1

====
